---- MODULE Spec2Model ----
(***************************************************************************)
(* MySQL-Schema-Compare: the schema checker of src/unnamed/part_000 (the   *)
(* GitHub Action variant) and of src/index.js (the minimal variant).       *)
(* One run of main() is modelled as a sequential process whose steps are   *)
(* the awaited operations of the code: the two createConnection calls,     *)
(* every catalog query, the createComment requests and the exit.           *)
(* "dev" is the reference database, "main" is the target database.         *)
(***************************************************************************)
EXTENDS Integers, Sequences, FiniteSets, TLC

(***************************************************************************)
(* Bounds of the model.                                                    *)
(***************************************************************************)
\* the largest number of columns of a table of the catalogs explored
MaxCols == 2

(***************************************************************************)
(* Values.                                                                 *)
(***************************************************************************)
\* JavaScript null (COLUMN_DEFAULT of a column without default); a string
\* value s is <<s>>, so that null and the string "NULL" are distinct values
Null == <<>>

Str(s) == <<s>>

Range(seq) == {seq[i] : i \in DOMAIN seq}

\* Array.prototype.push
Push(list, x) == Append(list, x)

\* Includes looking at the first element only
IncludesFirstOnly(list, x) == list # << >> /\ list[1] = x

\* Array.prototype.includes
Includes(list, x) == \E i \in DOMAIN list : list[i] = x

(***************************************************************************)
(* The catalogs of the two databases: the environment of the run.          *)
(***************************************************************************)
\* the table names of the catalogs, in the order of ORDER BY TABLE_NAME
TableNames == <<"orders", "users">>

Column(n, t, nl, d, e) ==
  [name |-> n, type |-> t, nullable |-> nl, defaultValue |-> d, extra |-> e]

IndexRow(k, c, nu) == [Key_name |-> k, Column_name |-> c, Non_unique |-> nu]

ColId == Column("id", "int(11)", "NO", Null, "auto_increment")

ColAge == Column("age", "int(11)", "YES", Null, "")

ColAgeNullString == Column("age", "int(11)", "YES", Str("NULL"), "")

ColAge10 == Column("age", "int(10)", "YES", Str("0"), "")

ColEmail == Column("email", "varchar(255)", "NO", Null, "")

\* the table definitions a table of a catalog is drawn from: the rows of
\* INFORMATION_SCHEMA.COLUMNS in ordinal order and the rows of SHOW INDEX
ShapePool ==
  { [columns |-> <<ColId, ColAge>>,
     indexRows |-> <<IndexRow("PRIMARY", "id", 0), IndexRow("ix_a", "id", 1),
                     IndexRow("ix_a", "age", 1)>>],
    [columns |-> <<ColId>>,
     indexRows |-> <<IndexRow("PRIMARY", "id", 0)>>],
    [columns |-> <<ColAge10, ColId>>,
     indexRows |-> <<IndexRow("ix_a", "age", 0), IndexRow("ix_b", "id", 1)>>],
    [columns |-> <<ColEmail>>,
     indexRows |-> << >>],
    [columns |-> <<ColId, ColAgeNullString>>,
     indexRows |-> <<IndexRow("ix_b", "id", 1), IndexRow("PRIMARY", "id", 0),
                     IndexRow("ix_a", "id", 1)>>],
    [columns |-> <<ColId, ColAge, ColEmail>>,
     indexRows |-> <<IndexRow("PRIMARY", "id", 0), IndexRow("ix_a", "id", 1),
                     IndexRow("ix_a", "age", 1), IndexRow("ix_b", "email", 0)>>] }

Shapes == {s \in ShapePool : Len(s.columns) <= MaxCols}

TableLists ==
  {SelectSeq(TableNames, LAMBDA t : t \in S) : S \in SUBSET Range(TableNames)}

Catalogs ==
  UNION {{[tables |-> tl, schema |-> f] : f \in [Range(tl) -> Shapes]} :
         tl \in TableLists}

(***************************************************************************)
(* The inputs of the action.                                               *)
(***************************************************************************)
RequiredInputs ==
  {"main-db-host", "main-db-user", "main-db-password", "main-db-name",
   "dev-db-host", "dev-db-user", "dev-db-password", "dev-db-name"}

\* the sets of provided inputs explored: all of them, or all but one
InputSets ==
  {RequiredInputs} \cup
  {RequiredInputs \ {n} : n \in {"main-db-host", "dev-db-name"}}

(***************************************************************************)
(* The pure functions of SchemaChecker.                                    *)
(***************************************************************************)
\* core.getInput(name) without the required option: '' for an absent input
getInput(provided, name) == IF name \in provided THEN "value" ELSE ""

\* the mainConfig/devConfig object of connect(); db is "main" or "dev"
ConnectionConfig(provided, db) ==
  LET names == IF db = "main"
               THEN [host |-> "main-db-host", user |-> "main-db-user",
                     password |-> "main-db-password",
                     database |-> "main-db-name"]
               ELSE [host |-> "dev-db-host", user |-> "dev-db-user",
                     password |-> "dev-db-password",
                     database |-> "dev-db-name"]
  IN [host |-> getInput(provided, names.host),
      user |-> getInput(provided, names.user),
      password |-> getInput(provided, names.password),
      database |-> getInput(provided, names.database)]

\* the position of the descriptor indexes[keyName] in Object.values(indexes),
\* 0 when the object has no such property of its own
IndexPosition(indexes, keyName) ==
  IF \E i \in DOMAIN indexes : indexes[i].name = keyName
  THEN CHOOSE i \in DOMAIN indexes : indexes[i].name = keyName
  ELSE 0

\* the index names of the rows explored that are integer-like property keys
\* of a JavaScript object, and the integer each of them denotes
ArrayIndex == ("1" :> 1) @@ ("2" :> 2)

IsArrayIndex(key) == key \in DOMAIN ArrayIndex

\* the index names of the rows explored that name a member of
\* Object.prototype: indexes[key] is that member before any assignment
ObjectPrototypeKeys == {"constructor"}

\* where a new property `key` stands among Object.values(indexes): the
\* integer-like keys come first in ascending order, the other keys follow in
\* the order of their creation
InsertPosition(indexes, key) ==
  IF IsArrayIndex(key)
  THEN 1 + Cardinality({i \in DOMAIN indexes :
                          /\ IsArrayIndex(indexes[i].name)
                          /\ ArrayIndex[indexes[i].name] < ArrayIndex[key]})
  ELSE Len(indexes) + 1

InsertAt(list, p, x) ==
  SubSeq(list, 1, p - 1) \o <<x>> \o SubSeq(list, p, Len(list))

RECURSIVE GroupIndexRows(_, _, _)
\* rows.forEach(row => ...) of getTableIndexes; `indexes` is the object in
\* the order of Object.values. For a row whose Key_name is a member of
\* Object.prototype, !indexes[row.Key_name] is false, no descriptor is
\* created and indexes[row.Key_name].columns.push throws a TypeError, which
\* ends the forEach.
GroupIndexRows(rows, tableName, indexes) ==
  IF rows = << >> THEN indexes
  ELSE LET row == Head(rows)
           pos == IndexPosition(indexes, row.Key_name)
           ins == InsertPosition(indexes, row.Key_name)
           created ==
             IF pos = 0
             THEN InsertAt(indexes, ins,
                           [name |-> row.Key_name, columns |-> << >>,
                            unique |-> (row.Non_unique = 0),
                            table |-> tableName])
             ELSE indexes
           at == IF pos = 0 THEN ins ELSE pos
       IN IF row.Key_name = "PRIMARY"
          THEN GroupIndexRows(Tail(rows), tableName, indexes)
          ELSE IF row.Key_name \in ObjectPrototypeKeys
               THEN indexes
               ELSE GroupIndexRows(Tail(rows), tableName,
                      [created EXCEPT ![at].columns = Push(@, row.Column_name)])

\* whether getTableIndexes throws the TypeError instead of returning
TableIndexesThrows(rows) ==
  \E i \in DOMAIN rows : rows[i].Key_name \in ObjectPrototypeKeys

\* what getTableIndexes returns for the rows of SHOW INDEX
TableIndexes(rows, tableName) == GroupIndexRows(rows, tableName, << >>)

\* the arrow U+2192 of the difference notes, written in ASCII
Arrow == "->"

\* `${value}` of a string value
Text(value) == value[1]

\* one difference note of compareColumns: the type and the extra notes quote
\* their values, the nullable and the default notes do not
Note(dimension, from, to) ==
  IF dimension \in {"type", "extra"}
  THEN dimension \o ": '" \o from \o "' " \o Arrow \o " '" \o to \o "'"
  ELSE dimension \o ": " \o from \o " " \o Arrow \o " " \o to

\* NormalizeDefault taking null for the empty string
NormalizeDefaultEmpty(defaultValue) ==
  IF defaultValue = Null THEN Str("") ELSE defaultValue

NormalizeDefault(defaultValue) ==
  IF defaultValue = Null THEN Str("NULL") ELSE defaultValue

\* Note with the two values exchanged
compareColumnsReferenceFirst(devColumn, mainColumn) ==
  LET devDefault == NormalizeDefault(devColumn.defaultValue)
      mainDefault == NormalizeDefault(mainColumn.defaultValue)
  IN (IF devColumn.type # mainColumn.type
      THEN <<Note("type", devColumn.type, mainColumn.type)>>
      ELSE << >>)
     \o
     (IF devColumn.nullable # mainColumn.nullable
      THEN <<Note("nullable", devColumn.nullable, mainColumn.nullable)>>
      ELSE << >>)
     \o
     (IF devDefault # mainDefault
      THEN <<Note("default", Text(devDefault), Text(mainDefault))>>
      ELSE << >>)
     \o
     (IF devColumn.extra # mainColumn.extra
      THEN <<Note("extra", devColumn.extra, mainColumn.extra)>>
      ELSE << >>)

\* compareColumns looking at nullable before type
compareColumnsNullableFirst(devColumn, mainColumn) ==
  LET devDefault == NormalizeDefault(devColumn.defaultValue)
      mainDefault == NormalizeDefault(mainColumn.defaultValue)
  IN (IF devColumn.nullable # mainColumn.nullable
      THEN <<Note("nullable", mainColumn.nullable, devColumn.nullable)>>
      ELSE << >>)
     \o
     (IF devColumn.type # mainColumn.type
      THEN <<Note("type", mainColumn.type, devColumn.type)>>
      ELSE << >>)
     \o
     (IF devDefault # mainDefault
      THEN <<Note("default", Text(mainDefault), Text(devDefault))>>
      ELSE << >>)
     \o
     (IF devColumn.extra # mainColumn.extra
      THEN <<Note("extra", mainColumn.extra, devColumn.extra)>>
      ELSE << >>)

compareColumns(devColumn, mainColumn) ==
  LET devDefault == NormalizeDefault(devColumn.defaultValue)
      mainDefault == NormalizeDefault(mainColumn.defaultValue)
  IN (IF devColumn.type # mainColumn.type
      THEN <<Note("type", mainColumn.type, devColumn.type)>>
      ELSE << >>)
     \o
     (IF devColumn.nullable # mainColumn.nullable
      THEN <<Note("nullable", mainColumn.nullable, devColumn.nullable)>>
      ELSE << >>)
     \o
     (IF devDefault # mainDefault
      THEN <<Note("default", Text(mainDefault), Text(devDefault))>>
      ELSE << >>)
     \o
     (IF devColumn.extra # mainColumn.extra
      THEN <<Note("extra", mainColumn.extra, devColumn.extra)>>
      ELSE << >>)

\* the backtick of the SQL text, which a TLA+ string cannot hold
Backtick == "^"

Quoted(identifier) == Backtick \o identifier \o Backtick

\* generateAlterColumnCommand appending DEFAULT for a null defaultValue too
generateAlterColumnCommandAlwaysDefault(tableName, column) ==
  LET sql0 == "ALTER TABLE " \o Quoted(tableName) \o " ADD COLUMN "
                \o Quoted(column.name) \o " " \o column.type
      sql1 == IF column.nullable = "NO" THEN sql0 \o " NOT NULL" ELSE sql0
      sql2 == sql1 \o " DEFAULT " \o Text(NormalizeDefault(column.defaultValue))
      sql3 == IF column.extra # "" THEN sql2 \o " " \o column.extra ELSE sql2
  IN sql3 \o ";"

generateAlterColumnCommand(tableName, column) ==
  LET sql0 == "ALTER TABLE " \o Quoted(tableName) \o " ADD COLUMN "
                \o Quoted(column.name) \o " " \o column.type
      sql1 == IF column.nullable = "NO" THEN sql0 \o " NOT NULL" ELSE sql0
      sql2 == IF column.defaultValue # Null
              THEN sql1 \o " DEFAULT " \o Text(column.defaultValue)
              ELSE sql1
      sql3 == IF column.extra # "" THEN sql2 \o " " \o column.extra ELSE sql2
  IN sql3 \o ";"

generateModifyColumnCommand(tableName, column) ==
  LET sql0 == "ALTER TABLE " \o Quoted(tableName) \o " MODIFY COLUMN "
                \o Quoted(column.name) \o " " \o column.type
      sql1 == IF column.nullable = "NO" THEN sql0 \o " NOT NULL" ELSE sql0
      sql2 == IF column.defaultValue # Null
              THEN sql1 \o " DEFAULT " \o Text(column.defaultValue)
              ELSE sql1
      sql3 == IF column.extra # "" THEN sql2 \o " " \o column.extra ELSE sql2
  IN sql3 \o ";"

RECURSIVE JoinReversed(_, _)
\* Join taking the elements from the last to the first
JoinReversed(list, separator) ==
  IF list = << >> THEN ""
  ELSE IF Len(list) = 1 THEN list[1]
       ELSE JoinReversed(Tail(list), separator) \o separator \o list[1]

RECURSIVE Join(_, _)
\* Array.prototype.join
Join(list, separator) ==
  IF list = << >> THEN ""
  ELSE IF Len(list) = 1 THEN list[1]
       ELSE list[1] \o separator \o Join(Tail(list), separator)

generateCreateIndexCommand(index) ==
  LET uniqueKeyword == IF index.unique THEN "UNIQUE " ELSE ""
      columns == Join([i \in DOMAIN index.columns |->
                         Quoted(index.columns[i])], ", ")
  IN "CREATE " \o uniqueKeyword \o "INDEX " \o Quoted(index.name) \o " ON "
       \o Quoted(index.table) \o " (" \o columns \o ");"

\* FindColumn looking only at the column in the last position
FindColumnLastOnly(columns, name) ==
  IF columns # << >> /\ columns[Len(columns)].name = name
  THEN Len(columns) ELSE 0

\* FindColumn looking at the first column only
FindColumnFirstOnly(columns, name) ==
  IF columns # << >> /\ columns[1].name = name THEN 1 ELSE 0

\* mainColumns.find(col => col.name === name): the position of the first
\* column of that name, 0 for undefined
FindColumn(columns, name) ==
  IF \E i \in DOMAIN columns : columns[i].name = name
  THEN CHOOSE i \in DOMAIN columns :
         /\ columns[i].name = name
         /\ \A j \in 1..(i - 1) : columns[j].name # name
  ELSE 0

RECURSIVE ColumnLoopSkipLast(_, _, _, _)
\* ColumnLoop ending one column early
ColumnLoopSkipLast(table, devColumns, mainColumns, lists) ==
  IF Len(devColumns) <= 1 THEN lists
  ELSE LET devColumn == Head(devColumns)
           found == FindColumn(mainColumns, devColumn.name)
           differences == compareColumns(devColumn, mainColumns[found])
       IN ColumnLoopSkipLast(table, Tail(devColumns), mainColumns,
            IF found = 0
            THEN [lists EXCEPT !.missingColumns =
                    Push(@, [table |-> table, column |-> devColumn])]
            ELSE IF Len(differences) > 0
                 THEN [lists EXCEPT !.differentColumns =
                         Push(@, [table |-> table, column |-> devColumn,
                                  differences |-> differences])]
                 ELSE lists)

RECURSIVE ColumnLoopTargetDescriptor(_, _, _, _)
\* ColumnLoop recording the target's descriptor of a different column
ColumnLoopTargetDescriptor(table, devColumns, mainColumns, lists) ==
  IF devColumns = << >> THEN lists
  ELSE LET devColumn == Head(devColumns)
           found == FindColumn(mainColumns, devColumn.name)
           differences == compareColumns(devColumn, mainColumns[found])
       IN ColumnLoopTargetDescriptor(table, Tail(devColumns), mainColumns,
            IF found = 0
            THEN [lists EXCEPT !.missingColumns =
                    Push(@, [table |-> table, column |-> devColumn])]
            ELSE IF Len(differences) > 0
                 THEN [lists EXCEPT !.differentColumns =
                         Push(@, [table |-> table,
                                  column |-> mainColumns[found],
                                  differences |-> differences])]
                 ELSE lists)

RECURSIVE ColumnLoopBothLists(_, _, _, _)
\* ColumnLoop recording a different column as a missing column too
ColumnLoopBothLists(table, devColumns, mainColumns, lists) ==
  IF devColumns = << >> THEN lists
  ELSE LET devColumn == Head(devColumns)
           found == FindColumn(mainColumns, devColumn.name)
           differences == compareColumns(devColumn, mainColumns[found])
       IN ColumnLoopBothLists(table, Tail(devColumns), mainColumns,
            IF found = 0
            THEN [lists EXCEPT !.missingColumns =
                    Push(@, [table |-> table, column |-> devColumn])]
            ELSE IF Len(differences) > 0
                 THEN [lists EXCEPT
                         !.missingColumns =
                           Push(@, [table |-> table, column |-> devColumn]),
                         !.differentColumns =
                           Push(@, [table |-> table, column |-> devColumn,
                                    differences |-> differences])]
                 ELSE lists)

RECURSIVE ColumnLoop(_, _, _, _)
\* for (const devColumn of devColumns): the two aggregate lists after the
\* loop, lists being the two lists before it
ColumnLoop(table, devColumns, mainColumns, lists) ==
  IF devColumns = << >> THEN lists
  ELSE LET devColumn == Head(devColumns)
           found == FindColumn(mainColumns, devColumn.name)
           differences == compareColumns(devColumn, mainColumns[found])
       IN ColumnLoop(table, Tail(devColumns), mainColumns,
            IF found = 0
            THEN [lists EXCEPT !.missingColumns =
                    Push(@, [table |-> table, column |-> devColumn])]
            ELSE IF Len(differences) > 0
                 THEN [lists EXCEPT !.differentColumns =
                         Push(@, [table |-> table, column |-> devColumn,
                                  differences |-> differences])]
                 ELSE lists)

RECURSIVE IndexLoop(_, _, _)
\* for (const devIndex of devIndexes): missingIndexes after the loop
IndexLoop(devIndexes, mainIndexNames, list) ==
  IF devIndexes = << >> THEN list
  ELSE IndexLoop(Tail(devIndexes), mainIndexNames,
         IF ~Includes(mainIndexNames, Head(devIndexes).name)
         THEN Push(list, Head(devIndexes))
         ELSE list)

\* IndexNames keeping the names of the unique indexes only
IndexNamesUniqueOnly(indexes) ==
  LET uniques == SelectSeq(indexes, LAMBDA idx : idx.unique)
  IN [i \in DOMAIN uniques |-> uniques[i].name]

\* mainIndexes.map(idx => idx.name)
IndexNames(indexes) == [i \in DOMAIN indexes |-> indexes[i].name]

\* HasDifferences without the test of missingIndexes
HasDifferencesNoIndexes(mt, mc, dc, mi) ==
  Len(mt) > 0 \/ Len(mc) > 0 \/ Len(dc) > 0

\* the condition of the "Show commands to fix missing items" branch
HasDifferences(mt, mc, dc, mi) ==
  Len(mt) > 0 \/ Len(mc) > 0 \/ Len(dc) > 0 \/ Len(mi) > 0

(***************************************************************************)
(* What the catalog queries answer.                                        *)
(***************************************************************************)
\* getTables: the TABLE_NAME of the rows, which arrive ORDER BY TABLE_NAME
TablesOf(catalog) == catalog.tables

\* getTableColumns: the rows, which arrive ORDER BY ORDINAL_POSITION
ColumnsOf(catalog, table) == catalog.schema[table].columns

\* the rows of SHOW INDEX FROM table
IndexRowsOf(catalog, table) == catalog.schema[table].indexRows

\* getCreateTableStatement: rows[0]['Create Table'], the DDL text of table
CreateTableOf(catalog, table) ==
  [createTable |-> table, columns |-> catalog.schema[table].columns]

Query(conn, op, table) == [conn |-> conn, op |-> op, table |-> table]

NoLists ==
  [missingTables |-> << >>, missingColumns |-> << >>,
   differentColumns |-> << >>, missingIndexes |-> << >>]

RECURSIVE Walk(_, _, _, _)
\* for (const table of devTables) of checkAndReport, every query answered:
\* the four lists after the loop over the tables that remain
Walk(tables, dev, main, lists) ==
  IF tables = << >> THEN lists
  ELSE LET table == Head(tables)
           columnLists ==
             ColumnLoop(table, ColumnsOf(dev, table), ColumnsOf(main, table),
                        [missingColumns |-> lists.missingColumns,
                         differentColumns |-> lists.differentColumns])
           mainIndexes == TableIndexes(IndexRowsOf(main, table), table)
           devIdx == TableIndexes(IndexRowsOf(dev, table), table)
       IN Walk(Tail(tables), dev, main,
            IF ~Includes(TablesOf(main), table)
            THEN [lists EXCEPT !.missingTables = Push(@, table)]
            ELSE [lists EXCEPT
                    !.missingColumns = columnLists.missingColumns,
                    !.differentColumns = columnLists.differentColumns,
                    !.missingIndexes =
                      IndexLoop(devIdx, IndexNames(mainIndexes), @)])

\* the lists checkAndReport ends with for the two catalogs
Compared(dev, main) == Walk(TablesOf(dev), dev, main, NoLists)

NoResult == [returned |-> FALSE]

\* no method is called directly during a run of main()
NoCall == [fn |-> "none"]

(***************************************************************************)
(* The state of one run.                                                   *)
(***************************************************************************)
VARIABLES
  variant,          \* "action": src/unnamed/part_000, "legacy": src/index.js
  githubActions,    \* whether process.env.GITHUB_ACTIONS is set
  inputs,           \* the names of the required inputs that are provided
  devCatalog,       \* the catalog of the reference database
  mainCatalog,      \* the catalog of the target database
  pc,               \* the position of main()
  mainDb,           \* this.mainDb: "null", "open" or "ended"
  devDb,            \* this.devDb: "null", "open" or "ended"
  connectCalls,     \* the configs mysql.createConnection was called with
  queries,          \* the catalog queries issued so far, in order
  error,            \* the failure that was thrown, "none" when none was
  devTables,        \* checkAndReport: devTables
  mainTables,       \* checkAndReport: mainTables
  ti,               \* the position of the loop over devTables
  devColumns,       \* checkAndReport: devColumns of the current table
  devIndexes,       \* checkAndReport: devIndexes of the current table
  missingTables,
  missingColumns,
  differentColumns,
  missingIndexes,
  mi,               \* the position of a loop over missingTables
  printed,          \* the CREATE TABLE statements logged by checkAndReport
  result,           \* what checkAndReport returned, NoResult before it returns
  summary,          \* the status of the step summary, "none" when not written
  outputs,          \* the core.setOutput calls, in order
  commentSql,       \* the CREATE TABLE statements of the PR comment body
  commentCalls,     \* the createComment requests issued, in order
  comments,         \* the comments that were posted, in order
  exitCode,         \* the code the process exited with, -1 while it runs
  fnCall,           \* a direct call of a method of SchemaChecker: its arguments
  fnState,          \* "idle", "called", "returned" or "thrown"
  fnResult          \* what the call returned

vars ==
  <<variant, githubActions, inputs, devCatalog, mainCatalog, pc, mainDb,
    devDb, connectCalls, queries, error, devTables, mainTables, ti,
    devColumns, devIndexes, missingTables, missingColumns, differentColumns,
    missingIndexes, mi, printed, result, summary, outputs, commentSql,
    commentCalls, comments, exitCode, fnCall, fnState, fnResult>>

fnVars == <<fnCall, fnState, fnResult>>

envVars == <<variant, githubActions, inputs, devCatalog, mainCatalog>>

connVars == <<mainDb, devDb, connectCalls>>

walkVars ==
  <<devTables, mainTables, ti, devColumns, devIndexes, missingTables,
    missingColumns, differentColumns, missingIndexes>>

reportVars == <<summary, outputs, commentSql, commentCalls, comments>>

Init ==
  /\ variant \in {"action", "legacy"}
  /\ githubActions \in BOOLEAN
  /\ inputs \in InputSets
  /\ devCatalog \in Catalogs
  /\ mainCatalog \in Catalogs
  /\ pc = "connectMain"
  /\ mainDb = "null"
  /\ devDb = "null"
  /\ connectCalls = << >>
  /\ queries = << >>
  /\ error = "none"
  /\ devTables = << >>
  /\ mainTables = << >>
  /\ ti = 1
  /\ devColumns = << >>
  /\ devIndexes = << >>
  /\ missingTables = << >>
  /\ missingColumns = << >>
  /\ differentColumns = << >>
  /\ missingIndexes = << >>
  /\ mi = 1
  /\ printed = << >>
  /\ result = NoResult
  /\ summary = "none"
  /\ outputs = << >>
  /\ commentSql = << >>
  /\ commentCalls = << >>
  /\ comments = << >>
  /\ exitCode = -1
  /\ fnCall = NoCall
  /\ fnState = "idle"
  /\ fnResult = << >>

(***************************************************************************)
(* connect()                                                               *)
(***************************************************************************)
\* Fail staying at the rejected operation, which is then issued again
FailRetry(kind) ==
  /\ pc' = pc
  /\ error' = kind

\* an awaited operation rejected: control passes to the catch block of main
Fail(kind) ==
  /\ pc' = "catch"
  /\ error' = kind

\* this.mainDb = await mysql.createConnection(mainConfig)
ConnectMain ==
  /\ pc = "connectMain"
  /\ connectCalls' = Push(connectCalls, ConnectionConfig(inputs, "main"))
  /\ \E ok \in BOOLEAN :
       IF ok
       THEN /\ mainDb' = "open"
            /\ pc' = "connectDev"
            /\ UNCHANGED error
       ELSE /\ Fail("connection")
            /\ UNCHANGED mainDb
  /\ UNCHANGED <<fnVars, envVars, devDb, queries, walkVars, mi, printed, result,
                 reportVars, exitCode>>

\* this.devDb = await mysql.createConnection(devConfig)
ConnectDev ==
  /\ pc = "connectDev"
  /\ connectCalls' = Push(connectCalls, ConnectionConfig(inputs, "dev"))
  /\ \E ok \in BOOLEAN :
       IF ok
       THEN /\ devDb' = "open"
            /\ pc' = "getTablesDev"
            /\ UNCHANGED error
       ELSE /\ Fail("connection")
            /\ UNCHANGED devDb
  /\ UNCHANGED <<fnVars, envVars, mainDb, queries, walkVars, mi, printed, result,
                 reportVars, exitCode>>

(***************************************************************************)
(* checkAndReport()                                                        *)
(***************************************************************************)
\* const devTables = await this.getTables(this.devDb)
GetTablesDev ==
  /\ pc = "getTablesDev"
  /\ queries' = Push(queries, Query("dev", "getTables", ""))
  /\ \E ok \in BOOLEAN :
       IF ok
       THEN /\ devTables' = TablesOf(devCatalog)
            /\ pc' = "getTablesMain"
            /\ UNCHANGED error
       ELSE /\ Fail("query")
            /\ UNCHANGED devTables
  /\ UNCHANGED <<fnVars, envVars, connVars, mainTables, ti, devColumns, devIndexes,
                 missingTables, missingColumns, differentColumns,
                 missingIndexes, mi, printed, result, reportVars, exitCode>>

\* const mainTables = await this.getTables(this.mainDb)
GetTablesMain ==
  /\ pc = "getTablesMain"
  /\ queries' = Push(queries, Query("main", "getTables", ""))
  /\ \E ok \in BOOLEAN :
       IF ok
       THEN /\ mainTables' = TablesOf(mainCatalog)
            /\ pc' = "loop"
            /\ UNCHANGED error
       ELSE /\ Fail("query")
            /\ UNCHANGED mainTables
  /\ UNCHANGED <<fnVars, envVars, connVars, devTables, ti, devColumns, devIndexes,
                 missingTables, missingColumns, differentColumns,
                 missingIndexes, mi, printed, result, reportVars, exitCode>>

\* the table of the current iteration of for (const table of devTables)
CurrentTable == devTables[ti]

InLoop == pc = "loop" /\ ti <= Len(devTables)

\* TableMissing with unshift in place of push
TableMissingUnshift ==
  /\ InLoop
  /\ ~Includes(mainTables, CurrentTable)
  /\ missingTables' = <<CurrentTable>> \o missingTables
  /\ ti' = ti + 1
  /\ UNCHANGED <<fnVars, envVars, connVars, pc, queries, error, devTables,
                 mainTables, devColumns, devIndexes, missingColumns,
                 differentColumns, missingIndexes, mi, printed, result,
                 reportVars, exitCode>>

\* if (!mainTables.includes(table)) missingTables.push(table)
TableMissing ==
  /\ InLoop
  /\ ~Includes(mainTables, CurrentTable)
  /\ missingTables' = Push(missingTables, CurrentTable)
  /\ ti' = ti + 1
  /\ UNCHANGED <<fnVars, envVars, connVars, pc, queries, error, devTables,
                 mainTables, devColumns, devIndexes, missingColumns,
                 differentColumns, missingIndexes, mi, printed, result,
                 reportVars, exitCode>>

\* const devColumns = await this.getTableColumns(this.devDb, table)
GetTableColumnsDev ==
  /\ InLoop
  /\ Includes(mainTables, CurrentTable)
  /\ queries' = Push(queries, Query("dev", "getTableColumns", CurrentTable))
  /\ \E ok \in BOOLEAN :
       IF ok
       THEN /\ devColumns' = ColumnsOf(devCatalog, CurrentTable)
            /\ pc' = "columnsMain"
            /\ UNCHANGED error
       ELSE /\ Fail("query")
            /\ UNCHANGED devColumns
  /\ UNCHANGED <<fnVars, envVars, connVars, devTables, mainTables, ti, devIndexes,
                 missingTables, missingColumns, differentColumns,
                 missingIndexes, mi, printed, result, reportVars, exitCode>>

\* const mainColumns = await this.getTableColumns(this.mainDb, table),
\* then the loop over devColumns
GetTableColumnsMain ==
  /\ pc = "columnsMain"
  /\ queries' = Push(queries, Query("main", "getTableColumns", CurrentTable))
  /\ \E ok \in BOOLEAN :
       IF ok
       THEN LET lists ==
                  ColumnLoop(CurrentTable, devColumns,
                             ColumnsOf(mainCatalog, CurrentTable),
                             [missingColumns |-> missingColumns,
                              differentColumns |-> differentColumns])
            IN /\ missingColumns' = lists.missingColumns
               /\ differentColumns' = lists.differentColumns
               /\ pc' = "indexesDev"
               /\ UNCHANGED error
       ELSE /\ Fail("query")
            /\ UNCHANGED <<missingColumns, differentColumns>>
  /\ UNCHANGED <<fnVars, envVars, connVars, devTables, mainTables, ti, devColumns,
                 devIndexes, missingTables, missingIndexes, mi, printed,
                 result, reportVars, exitCode>>

\* const devIndexes = await this.getTableIndexes(this.devDb, table)
GetTableIndexesDev ==
  /\ pc = "indexesDev"
  /\ queries' = Push(queries, Query("dev", "getTableIndexes", CurrentTable))
  /\ \E ok \in BOOLEAN :
       IF ok /\ ~TableIndexesThrows(IndexRowsOf(devCatalog, CurrentTable))
       THEN /\ devIndexes' =
                 TableIndexes(IndexRowsOf(devCatalog, CurrentTable),
                              CurrentTable)
            /\ pc' = "indexesMain"
            /\ UNCHANGED error
       ELSE /\ Fail("query")
            /\ UNCHANGED devIndexes
  /\ UNCHANGED <<fnVars, envVars, connVars, devTables, mainTables, ti, devColumns,
                 missingTables, missingColumns, differentColumns,
                 missingIndexes, mi, printed, result, reportVars, exitCode>>

\* const mainIndexes = await this.getTableIndexes(this.mainDb, table), then
\* the loop over devIndexes; the iteration ends and its constants go out of
\* scope
GetTableIndexesMain ==
  /\ pc = "indexesMain"
  /\ queries' = Push(queries, Query("main", "getTableIndexes", CurrentTable))
  /\ \E ok \in BOOLEAN :
       IF ok /\ ~TableIndexesThrows(IndexRowsOf(mainCatalog, CurrentTable))
       THEN LET mainIndexes ==
                  TableIndexes(IndexRowsOf(mainCatalog, CurrentTable),
                               CurrentTable)
            IN /\ missingIndexes' =
                    IndexLoop(devIndexes, IndexNames(mainIndexes),
                              missingIndexes)
               /\ ti' = ti + 1
               /\ devColumns' = << >>
               /\ devIndexes' = << >>
               /\ pc' = "loop"
               /\ UNCHANGED error
       ELSE /\ Fail("query")
            /\ UNCHANGED <<missingIndexes, ti, devColumns, devIndexes>>
  /\ UNCHANGED <<fnVars, envVars, connVars, devTables, mainTables, missingTables,
                 missingColumns, differentColumns, mi, printed, result,
                 reportVars, exitCode>>

WalkDone == pc = "loop" /\ ti > Len(devTables)

Drift ==
  HasDifferences(missingTables, missingColumns, differentColumns,
                 missingIndexes)

\* PrintCreateTable asking the target connection
PrintCreateTableFromTarget ==
  /\ WalkDone
  /\ Drift
  /\ mi <= Len(missingTables)
  /\ queries' =
       Push(queries, Query("main", "getCreateTableStatement", missingTables[mi]))
  /\ \E ok \in BOOLEAN :
       IF ok
       THEN /\ printed' =
                 Push(printed,
                      <<CreateTableOf(devCatalog, missingTables[mi]), ";\n">>)
            /\ mi' = mi + 1
            /\ UNCHANGED <<pc, error>>
       ELSE /\ Fail("query")
            /\ UNCHANGED <<printed, mi>>
  /\ UNCHANGED <<fnVars, envVars, connVars, walkVars, result, reportVars, exitCode>>

\* the "-- Missing Tables --" loop of checkAndReport:
\* const createStatement = await this.getCreateTableStatement(this.devDb, table)
PrintCreateTable ==
  /\ WalkDone
  /\ Drift
  /\ mi <= Len(missingTables)
  /\ queries' =
       Push(queries, Query("dev", "getCreateTableStatement", missingTables[mi]))
  /\ \E ok \in BOOLEAN :
       IF ok
       THEN /\ printed' =
                 Push(printed,
                      <<CreateTableOf(devCatalog, missingTables[mi]), ";\n">>)
            /\ mi' = mi + 1
            /\ UNCHANGED <<pc, error>>
       ELSE /\ Fail("query")
            /\ UNCHANGED <<printed, mi>>
  /\ UNCHANGED <<fnVars, envVars, connVars, walkVars, result, reportVars, exitCode>>

\* the value checkAndReport of src/unnamed/part_000 returns
ActionResult ==
  IF Drift
  THEN [returned |-> TRUE, isInSync |-> FALSE,
        missingTables |-> missingTables, missingColumns |-> missingColumns,
        differentColumns |-> differentColumns,
        missingIndexes |-> missingIndexes]
  ELSE [returned |-> TRUE, isInSync |-> TRUE,
        missingTables |-> << >>, missingColumns |-> << >>,
        differentColumns |-> << >>, missingIndexes |-> << >>]

\* the value checkAndReport of src/index.js returns
LegacyResult ==
  IF Drift
  THEN [returned |-> TRUE, isInSync |-> FALSE]
  ELSE [returned |-> TRUE, isInSync |-> TRUE]

\* checkAndReport returns
Return ==
  /\ WalkDone
  /\ Drift => mi > Len(missingTables)
  /\ result' = IF variant = "action" THEN ActionResult ELSE LegacyResult
  /\ pc' = "returned"
  /\ mi' = 1
  /\ UNCHANGED <<fnVars, envVars, connVars, queries, error, walkVars, printed,
                 reportVars, exitCode>>

(***************************************************************************)
(* main() of src/unnamed/part_000                                          *)
(***************************************************************************)
\* the heading of the body of generatePRComment
DriftComment == "Database Schema Differences Detected"

\* the heading of the body the catch block posts
FailedComment == "Schema Comparison Failed"

Output(name, value) == [name |-> name, value |-> value]

\* SetOutputs counting the missing columns for the missing tables
SetOutputsColumnsForTables(r) ==
  <<Output("is-in-sync", r.isInSync),
    Output("missing-tables-count", Len(r.missingColumns)),
    Output("missing-columns-count", Len(r.missingColumns)),
    Output("different-columns-count", Len(r.differentColumns)),
    Output("missing-indexes-count", Len(r.missingIndexes))>>

\* the five core.setOutput calls
SetOutputs(r) ==
  <<Output("is-in-sync", r.isInSync),
    Output("missing-tables-count", Len(r.missingTables)),
    Output("missing-columns-count", Len(r.missingColumns)),
    Output("different-columns-count", Len(r.differentColumns)),
    Output("missing-indexes-count", Len(r.missingIndexes))>>

\* if (process.env.GITHUB_ACTIONS): the step summary and the outputs, then
\* generatePRComment is entered when the result is not in sync
Report ==
  /\ pc = "returned"
  /\ variant = "action"
  /\ IF githubActions
     THEN /\ summary' = IF result.isInSync THEN "In Sync" ELSE "Out of Sync"
          /\ outputs' = outputs \o SetOutputs(result)
          /\ pc' = IF ~result.isInSync THEN "prComment" ELSE "disconnect"
     ELSE /\ pc' = "disconnect"
          /\ UNCHANGED <<summary, outputs>>
  /\ UNCHANGED <<fnVars, envVars, connVars, queries, error, walkVars, mi, printed,
                 result, commentSql, commentCalls, comments, exitCode>>

\* the "-- Missing Tables --" loop of generatePRComment
CommentCreateTable ==
  /\ pc = "prComment"
  /\ mi <= Len(result.missingTables)
  /\ queries' =
       Push(queries,
            Query("dev", "getCreateTableStatement", result.missingTables[mi]))
  /\ \E ok \in BOOLEAN :
       IF ok
       THEN /\ commentSql' =
                 Push(commentSql,
                      <<CreateTableOf(devCatalog, result.missingTables[mi]),
                        ";">>)
            /\ mi' = mi + 1
            /\ UNCHANGED <<pc, error>>
       ELSE /\ Fail("query")
            /\ UNCHANGED <<commentSql, mi>>
  /\ UNCHANGED <<fnVars, envVars, connVars, walkVars, printed, result, summary,
                 outputs, commentCalls, comments, exitCode>>

\* await github.getOctokit(...).rest.issues.createComment({..., body}) with
\* the body of generatePRComment
PostDriftComment ==
  /\ pc = "prComment"
  /\ mi > Len(result.missingTables)
  /\ commentCalls' = Push(commentCalls, DriftComment)
  /\ \E ok \in BOOLEAN :
       IF ok
       THEN /\ comments' = Push(comments, DriftComment)
            /\ pc' = "disconnect"
            /\ UNCHANGED error
       ELSE /\ Fail("comment")
            /\ UNCHANGED comments
  /\ UNCHANGED <<fnVars, envVars, connVars, queries, walkVars, mi, printed, result,
                 summary, outputs, commentSql, exitCode>>

\* if (this.mainDb) await this.mainDb.end()
EndOf(connection) == IF connection = "open" THEN "ended" ELSE connection

\* DisconnectAndExit with the exit code of src/index.js
DisconnectAndExitBySync ==
  /\ pc = "disconnect"
  /\ mainDb' = EndOf(mainDb)
  /\ devDb' = EndOf(devDb)
  /\ exitCode' = IF result.isInSync THEN 0 ELSE 1
  /\ pc' = "exited"
  /\ UNCHANGED <<fnVars, envVars, connectCalls, queries, error, walkVars, mi,
                 printed, result, reportVars>>

\* await checker.disconnect(); process.exit(0)
DisconnectAndExit ==
  /\ pc = "disconnect"
  /\ mainDb' = EndOf(mainDb)
  /\ devDb' = EndOf(devDb)
  /\ exitCode' = 0
  /\ pc' = "exited"
  /\ UNCHANGED <<fnVars, envVars, connectCalls, queries, error, walkVars, mi,
                 printed, result, reportVars>>

\* CatchAction without the failure comment
CatchActionNoComment ==
  /\ pc = "catch"
  /\ variant = "action"
  /\ exitCode' = 1
  /\ pc' = "exited"
  /\ UNCHANGED <<fnVars, envVars, connVars, queries, error, walkVars, mi, printed,
                 result, reportVars>>

\* the catch block: core.setFailed and the failure comment under
\* GITHUB_ACTIONS, then process.exit(1); when createComment rejects the
\* rejection of main() is unhandled and node20 exits with code 1
CatchAction ==
  /\ pc = "catch"
  /\ variant = "action"
  /\ IF githubActions
     THEN /\ commentCalls' = Push(commentCalls, FailedComment)
          /\ \E ok \in BOOLEAN :
               comments' = IF ok
                           THEN Push(comments, FailedComment)
                           ELSE comments
     ELSE UNCHANGED <<commentCalls, comments>>
  /\ exitCode' = 1
  /\ pc' = "exited"
  /\ UNCHANGED <<fnVars, envVars, connVars, queries, error, walkVars, mi, printed,
                 result, summary, outputs, commentSql>>

(***************************************************************************)
(* main() of src/index.js                                                  *)
(***************************************************************************)
\* process.exit(isInSync ? 0 : 1): the process ends inside the try block, the
\* finally block is not reached
ExitLegacy ==
  /\ pc = "returned"
  /\ variant = "legacy"
  /\ exitCode' = IF result.isInSync THEN 0 ELSE 1
  /\ pc' = "exited"
  /\ UNCHANGED <<fnVars, envVars, connVars, queries, error, walkVars, mi, printed,
                 result, reportVars>>

\* the catch block: process.exit(1), the finally block is not reached
CatchLegacy ==
  /\ pc = "catch"
  /\ variant = "legacy"
  /\ exitCode' = 1
  /\ pc' = "exited"
  /\ UNCHANGED <<fnVars, envVars, connVars, queries, error, walkVars, mi, printed,
                 result, reportVars>>

Next ==
  \/ ConnectMain
  \/ ConnectDev
  \/ GetTablesDev
  \/ GetTablesMain
  \/ TableMissing
  \/ GetTableColumnsDev
  \/ GetTableColumnsMain
  \/ GetTableIndexesDev
  \/ GetTableIndexesMain
  \/ PrintCreateTable
  \/ Return
  \/ Report
  \/ CommentCreateTable
  \/ PostDriftComment
  \/ DisconnectAndExit
  \/ CatchAction
  \/ ExitLegacy
  \/ CatchLegacy

Spec == Init /\ [][Next]_vars

(***************************************************************************)
(* Direct calls of the methods of SchemaChecker that compute their result  *)
(* from their arguments alone. No run of main() takes place: the variables *)
(* of the run keep the values the constructor leaves.                      *)
(***************************************************************************)
\* the largest number of rows SHOW INDEX answers in the calls explored
MaxIndexRows == 3

\* the largest number of columns of an index descriptor in the calls explored
MaxIndexColumns == 3

SeqsUpTo(S, n) == UNION {[1..k -> S] : k \in 0..n}

\* the rows of SHOW INDEX in the calls explored
IndexRowPool ==
  {IndexRow(k, c, nu) : k \in {"PRIMARY", "ix_a", "ix_b", "1", "constructor"},
                        c \in {"x", "y"}, nu \in {0, 1}}

\* the column descriptors in the calls explored
ColumnPool ==
  {Column("age", t, nl, d, e) :
     t \in {"int", "int(10)", "int(11)"}, nl \in {"YES", "NO"},
     d \in {Null, Str("NULL"), Str(""), Str("0")},
     e \in {"", "auto_increment"}}

\* the index descriptors in the calls explored
IndexPool ==
  {[name |-> "ix_a", columns |-> cs, unique |-> u, table |-> "users"] :
     cs \in SeqsUpTo({"x", "y", "z"}, MaxIndexColumns) \ {<< >>},
     u \in BOOLEAN}

FnCalls ==
  {[fn |-> "getTableIndexes", rows |-> rows, tableName |-> "users"] :
     rows \in SeqsUpTo(IndexRowPool, MaxIndexRows)}
  \cup
  {[fn |-> "compareColumns", devColumn |-> d, mainColumn |-> m] :
     d \in ColumnPool, m \in ColumnPool}
  \cup
  {[fn |-> f, tableName |-> "users", column |-> c] :
     f \in {"generateAlterColumnCommand", "generateModifyColumnCommand"},
     c \in ColumnPool}
  \cup
  {[fn |-> "generateCreateIndexCommand", index |-> i] : i \in IndexPool}

FnInit ==
  /\ fnCall \in FnCalls
  /\ fnState = "called"
  /\ fnResult = << >>
  /\ variant = "action"
  /\ githubActions = FALSE
  /\ inputs = RequiredInputs
  /\ devCatalog = [tables |-> << >>, schema |-> << >>]
  /\ mainCatalog = [tables |-> << >>, schema |-> << >>]
  /\ pc = "constructed"
  /\ mainDb = "null"
  /\ devDb = "null"
  /\ connectCalls = << >>
  /\ queries = << >>
  /\ error = "none"
  /\ devTables = << >>
  /\ mainTables = << >>
  /\ ti = 1
  /\ devColumns = << >>
  /\ devIndexes = << >>
  /\ missingTables = << >>
  /\ missingColumns = << >>
  /\ differentColumns = << >>
  /\ missingIndexes = << >>
  /\ mi = 1
  /\ printed = << >>
  /\ result = NoResult
  /\ summary = "none"
  /\ outputs = << >>
  /\ commentSql = << >>
  /\ commentCalls = << >>
  /\ comments = << >>
  /\ exitCode = -1

runVars ==
  <<envVars, connVars, walkVars, reportVars, pc, queries, error, mi, printed,
    result, exitCode>>

\* getTableIndexes(connection, tableName), SHOW INDEX answering fnCall.rows
CallGetTableIndexes ==
  /\ fnState = "called"
  /\ fnCall.fn = "getTableIndexes"
  /\ IF TableIndexesThrows(fnCall.rows)
     THEN /\ fnState' = "thrown"
          /\ UNCHANGED fnResult
     ELSE /\ fnState' = "returned"
          /\ fnResult' = TableIndexes(fnCall.rows, fnCall.tableName)
  /\ UNCHANGED <<fnCall, runVars>>

CallCompareColumns ==
  /\ fnState = "called"
  /\ fnCall.fn = "compareColumns"
  /\ fnState' = "returned"
  /\ fnResult' = compareColumns(fnCall.devColumn, fnCall.mainColumn)
  /\ UNCHANGED <<fnCall, runVars>>

CallGenerateAlterColumnCommand ==
  /\ fnState = "called"
  /\ fnCall.fn = "generateAlterColumnCommand"
  /\ fnState' = "returned"
  /\ fnResult' = generateAlterColumnCommand(fnCall.tableName, fnCall.column)
  /\ UNCHANGED <<fnCall, runVars>>

CallGenerateModifyColumnCommand ==
  /\ fnState = "called"
  /\ fnCall.fn = "generateModifyColumnCommand"
  /\ fnState' = "returned"
  /\ fnResult' = generateModifyColumnCommand(fnCall.tableName, fnCall.column)
  /\ UNCHANGED <<fnCall, runVars>>

CallGenerateCreateIndexCommand ==
  /\ fnState = "called"
  /\ fnCall.fn = "generateCreateIndexCommand"
  /\ fnState' = "returned"
  /\ fnResult' = generateCreateIndexCommand(fnCall.index)
  /\ UNCHANGED <<fnCall, runVars>>

FnNext ==
  \/ CallGetTableIndexes
  \/ CallCompareColumns
  \/ CallGenerateAlterColumnCommand
  \/ CallGenerateModifyColumnCommand
  \/ CallGenerateCreateIndexCommand

SpecFn == FnInit /\ [][FnNext]_vars

(***************************************************************************)
(* Properties.                                                             *)
(***************************************************************************)
NoDifferences ==
  /\ missingTables = << >>
  /\ missingColumns = << >>
  /\ differentColumns = << >>
  /\ missingIndexes = << >>

SameColumn(c, d) ==
  /\ c.name = d.name
  /\ c.type = d.type
  /\ c.nullable = d.nullable
  /\ c.defaultValue = d.defaultValue
  /\ c.extra = d.extra

\* every table, column and non-primary index of reference is in target
Superset(reference, target) ==
  \A t \in Range(reference.tables) :
    /\ t \in Range(target.tables)
    /\ \A c \in Range(reference.schema[t].columns) :
         \E d \in Range(target.schema[t].columns) : SameColumn(c, d)
    /\ \A r \in Range(reference.schema[t].indexRows) :
         r.Key_name # "PRIMARY" =>
           \E q \in Range(target.schema[t].indexRows) :
             q.Key_name = r.Key_name

\* C1: when every table, column and non-primary index of the reference is in
\* the target under the same name and definition, checkAndReport reports
\* in-sync and the four difference lists are empty
C1_SupersetInSync ==
  (result.returned /\ Superset(devCatalog, mainCatalog)) =>
    /\ result.isInSync
    /\ NoDifferences
    /\ variant = "action" =>
         /\ result.missingTables = << >>
         /\ result.missingColumns = << >>
         /\ result.differentColumns = << >>
         /\ result.missingIndexes = << >>

\* a target with more than the reference of two tables was compared
C1_Witness ==
  /\ result.returned
  /\ Superset(devCatalog, mainCatalog)
  /\ Len(devCatalog.tables) = 2
  /\ \E t \in Range(devCatalog.tables) :
       /\ Len(mainCatalog.schema[t].columns) > Len(devCatalog.schema[t].columns)
       /\ Len(mainCatalog.schema[t].indexRows) >
            Len(devCatalog.schema[t].indexRows)

\* C2: when checkAndReport returns, the in-sync flag is true exactly when
\* the four difference lists are empty
C2_InSyncIffEmpty ==
  result.returned =>
    /\ result.isInSync <=> NoDifferences
    /\ variant = "action" =>
         /\ result.missingTables = missingTables
         /\ result.missingColumns = missingColumns
         /\ result.differentColumns = differentColumns
         /\ result.missingIndexes = missingIndexes

\* a run returned out of sync with a missing index as the only difference
C2_Witness ==
  /\ result.returned
  /\ ~result.isInSync
  /\ missingIndexes # << >>
  /\ missingTables = << >>
  /\ missingColumns = << >>
  /\ differentColumns = << >>

\* C3: when the process has exited, end() was called on every connection
\* that was opened
C3_ConnectionsReleased ==
  pc = "exited" => (mainDb # "open" /\ devDb # "open")

ColumnQueries == {"getTableColumns", "getTableIndexes"}

QueryIssued(conn, op, table) ==
  \E i \in DOMAIN queries : queries[i] = Query(conn, op, table)

TablesOnlyInReference ==
  Range(devCatalog.tables) \ Range(mainCatalog.tables)

SharedTables == Range(devCatalog.tables) \cap Range(mainCatalog.tables)

\* C4: a reference table absent from the target is recorded in
\* missingTables, is never queried for columns or indexes and contributes to
\* no other list; the reference tables present in the target are compared
C4_MissingTableNotDescended ==
  /\ \A t \in TablesOnlyInReference :
       /\ \A i \in DOMAIN queries :
            queries[i].op \in ColumnQueries => queries[i].table # t
       /\ \A i \in DOMAIN missingColumns : missingColumns[i].table # t
       /\ \A i \in DOMAIN differentColumns : differentColumns[i].table # t
       /\ \A i \in DOMAIN missingIndexes : missingIndexes[i].table # t
       /\ result.returned => Includes(missingTables, t)
  /\ \A t \in SharedTables :
       result.returned =>
         /\ ~Includes(missingTables, t)
         /\ \A conn \in {"dev", "main"} : \A op \in ColumnQueries :
              QueryIssued(conn, op, t)

\* reference [orders, users] against target [users]: orders is missing and
\* drift of users is reported
C4_Witness ==
  /\ result.returned
  /\ devCatalog.tables = <<"orders", "users">>
  /\ mainCatalog.tables = <<"users">>
  /\ missingTables = <<"orders">>
  /\ missingColumns # << >>
  /\ missingIndexes # << >>
  /\ \A i \in DOMAIN missingColumns : missingColumns[i].table = "users"

\* what the run produces for its consumers
Produced == <<result, summary, outputs, commentSql, printed>>

\* C5: once a catalog query has failed no further query is issued and
\* nothing more is produced, the process exits with code 1; a comparison
\* that did not return sets no output and writes no report
C5_QueryFailureAborts ==
  /\ [](error = "query" /\ pc = "exited" => exitCode = 1)
  /\ [](~result.returned =>
          /\ summary = "none"
          /\ outputs = << >>
          /\ commentSql = << >>
          /\ commentCalls \in {<< >>, <<FailedComment>>})
  /\ [][error = "query" =>
          /\ queries' = queries
          /\ Produced' = Produced
          /\ ~Includes(comments', DriftComment)
          /\ error' = "query"]_vars

\* a run was aborted by a failed query with differences already collected
C5_Witness ==
  /\ error = "query"
  /\ pc = "exited"
  /\ ~result.returned
  /\ missingColumns # << >>
  /\ Len(queries) < 2 + 4 * Len(devCatalog.tables)

\* C6 as stated: in src/unnamed/part_000 a run whose comparison returned
\* exits with code 0, and code 1 follows a connection or query failure only
C6_ExitZeroAfterComparison ==
  (variant = "action" /\ pc = "exited") =>
    /\ result.returned => exitCode = 0
    /\ exitCode = 1 => error \in {"connection", "query"}

\* C6 amended: a run whose comparison returned and in which no later step
\* failed exits with code 0, in sync or not; code 1 follows a failed
\* connection, query or createComment request only
C6_ExitZeroUnlessFailure ==
  (variant = "action" /\ pc = "exited") =>
    /\ exitCode \in {0, 1}
    /\ (result.returned /\ error = "none") => exitCode = 0
    /\ exitCode = 1 => error \in {"connection", "query", "comment"}
    /\ exitCode = 0 => (result.returned /\ error = "none")

\* a run that found drift and posted it exited with code 0
C6_Witness ==
  /\ variant = "action"
  /\ pc = "exited"
  /\ exitCode = 0
  /\ ~result.isInSync
  /\ comments = <<DriftComment>>

\* C7: when a required input is absent mysql.createConnection is not called
\* and the process exits with code 1
C7_NoConnectionWithoutInput ==
  inputs # RequiredInputs =>
    /\ connectCalls = << >>
    /\ pc = "exited" => exitCode = 1

\* C8 as stated: under GITHUB_ACTIONS a run that ends in a fatal error has
\* posted the failure comment and not the drift comment, and no run has
\* posted both
C8_FailureCommentPosted ==
  (variant = "action" /\ githubActions /\ pc = "exited") =>
    /\ exitCode = 1 =>
         (Includes(comments, FailedComment) /\ ~Includes(comments, DriftComment))
    /\ ~(Includes(comments, FailedComment) /\ Includes(comments, DriftComment))

\* C8 amended: a run that ends in a fatal error has issued the createComment
\* request of the failure comment as its last request, and has posted no
\* drift comment; a run that posted the drift comment has issued no request
\* for the failure comment; no run has posted both
C8_FailureCommentRequested ==
  (variant = "action" /\ githubActions /\ pc = "exited") =>
    /\ exitCode = 1 =>
         /\ commentCalls # << >>
         /\ commentCalls[Len(commentCalls)] = FailedComment
         /\ ~Includes(comments, DriftComment)
         /\ comments \in {<< >>, <<FailedComment>>}
    /\ Includes(comments, DriftComment) =>
         (~Includes(commentCalls, FailedComment) /\ exitCode = 0)
    /\ ~(Includes(comments, FailedComment) /\ Includes(comments, DriftComment))

\* the request of the drift comment failed and the failure comment was
\* posted
C8_Witness ==
  /\ variant = "action"
  /\ githubActions
  /\ pc = "exited"
  /\ commentCalls = <<DriftComment, FailedComment>>
  /\ comments = <<FailedComment>>

\* the reference tables that are not in the target, in reference order
ExpectedMissingTables ==
  SelectSeq(devCatalog.tables,
            LAMBDA t : \A i \in DOMAIN mainCatalog.tables :
                         mainCatalog.tables[i] # t)

\* C9: missingTables is the reference table names that do not occur in the
\* target's table list, each once, in the order of the reference listing
C9_MissingTablesExact ==
  result.returned =>
    /\ missingTables = ExpectedMissingTables
    /\ variant = "action" => result.missingTables = ExpectedMissingTables

\* two tables are missing
C9_Witness ==
  /\ result.returned
  /\ missingTables = <<"orders", "users">>

\* the columns of table in reference whose name no column of the table in
\* target has, in reference order
ExpectedMissingColumnsOf(table) ==
  LET absent ==
        SelectSeq(devCatalog.schema[table].columns,
                  LAMBDA c : \A d \in Range(mainCatalog.schema[table].columns) :
                               d.name # c.name)
  IN [i \in DOMAIN absent |-> [table |-> table, column |-> absent[i]]]

RECURSIVE ExpectedMissingColumns(_)
ExpectedMissingColumns(tables) ==
  IF tables = << >> THEN << >>
  ELSE (IF Head(tables) \in SharedTables
        THEN ExpectedMissingColumnsOf(Head(tables))
        ELSE << >>)
       \o ExpectedMissingColumns(Tail(tables))

\* C10: missingColumns is the {table, column} entries of the reference
\* columns of shared tables whose name is not among the target's columns of
\* the table, with the reference descriptor, in reference table order and
\* reference ordinal order
C10_MissingColumnsExact ==
  result.returned =>
    /\ missingColumns = ExpectedMissingColumns(devCatalog.tables)
    /\ variant = "action" =>
         result.missingColumns = ExpectedMissingColumns(devCatalog.tables)

\* two columns are missing in each of two tables
C10_Witness ==
  /\ result.returned
  /\ Len(missingColumns) = 4
  /\ missingColumns[1].table = "orders"
  /\ missingColumns[4].table = "users"
  /\ missingColumns[1].column.name # missingColumns[2].column.name

\* the first column named name of the table in target
TargetColumn(table, name) ==
  LET columns == mainCatalog.schema[table].columns
      first == CHOOSE i \in DOMAIN columns :
                 /\ columns[i].name = name
                 /\ \A j \in DOMAIN columns : columns[j].name = name => i <= j
  IN columns[first]

\* the entries of the columns of table in reference that target has under
\* the same name and compareColumns has a note for, in reference order
ExpectedDifferentColumnsOf(table) ==
  LET present ==
        SelectSeq(devCatalog.schema[table].columns,
                  LAMBDA c : \E d \in Range(mainCatalog.schema[table].columns) :
                               d.name = c.name)
      differing ==
        SelectSeq(present,
                  LAMBDA c : compareColumns(c, TargetColumn(table, c.name))
                               # << >>)
  IN [i \in DOMAIN differing |->
        [table |-> table, column |-> differing[i],
         differences |->
           compareColumns(differing[i],
                          TargetColumn(table, differing[i].name))]]

RECURSIVE ExpectedDifferentColumns(_)
ExpectedDifferentColumns(tables) ==
  IF tables = << >> THEN << >>
  ELSE (IF Head(tables) \in SharedTables
        THEN ExpectedDifferentColumnsOf(Head(tables))
        ELSE << >>)
       \o ExpectedDifferentColumns(Tail(tables))

\* C11: differentColumns is the entries of the reference columns of shared
\* tables whose name the target's table has and for which
\* compareColumns(reference, target) returns a note; an entry carries the
\* table, the reference descriptor and that note list, in reference table
\* order and reference ordinal order
C11_DifferentColumnsExact ==
  result.returned =>
    /\ differentColumns = ExpectedDifferentColumns(devCatalog.tables)
    /\ variant = "action" =>
         result.differentColumns = ExpectedDifferentColumns(devCatalog.tables)

\* a column differs in each of two tables, with more than one note, and
\* the entry has the reference's type, not the target's
C11_Witness ==
  /\ result.returned
  /\ Len(differentColumns) = 2
  /\ differentColumns[1].table = "orders"
  /\ differentColumns[2].table = "users"
  /\ Len(differentColumns[1].differences) > 1
  /\ differentColumns[1].column.type = "int(10)"
  /\ TargetColumn("orders", "age").type = "int(11)"

\* the names of the non-primary indexes of the rows, each once, in the order
\* of their first row
IndexNamesOfRows(rows) ==
  LET firsts ==
        SelectSeq([i \in DOMAIN rows |-> i],
                  LAMBDA i : /\ rows[i].Key_name # "PRIMARY"
                             /\ \A j \in 1..(i - 1) :
                                  rows[j].Key_name # rows[i].Key_name)
  IN [k \in DOMAIN firsts |-> rows[firsts[k]].Key_name]

\* the descriptor of the index named name of the rows of table
DescriptorOf(rows, name, table) ==
  LET own == SelectSeq(rows, LAMBDA r : r.Key_name = name)
  IN [name |-> name,
      columns |-> [i \in DOMAIN own |-> own[i].Column_name],
      unique |-> (own[1].Non_unique = 0),
      table |-> table]

\* the indexes of table in reference whose name no index of the table in
\* target has
ExpectedMissingIndexesOf(table) ==
  LET targetNames ==
        Range(IndexNamesOfRows(mainCatalog.schema[table].indexRows))
      absent ==
        SelectSeq(IndexNamesOfRows(devCatalog.schema[table].indexRows),
                  LAMBDA n : n \notin targetNames)
  IN [i \in DOMAIN absent |->
        DescriptorOf(devCatalog.schema[table].indexRows, absent[i], table)]

RECURSIVE ExpectedMissingIndexes(_)
ExpectedMissingIndexes(tables) ==
  IF tables = << >> THEN << >>
  ELSE (IF Head(tables) \in SharedTables
        THEN ExpectedMissingIndexesOf(Head(tables))
        ELSE << >>)
       \o ExpectedMissingIndexes(Tail(tables))

\* an index of the name is on both sides of the shared table, with another
\* column list or uniqueness in the target
RedefinedIndex(table, name) ==
  /\ table \in SharedTables
  /\ name \in Range(IndexNamesOfRows(devCatalog.schema[table].indexRows))
  /\ name \in Range(IndexNamesOfRows(mainCatalog.schema[table].indexRows))
  /\ DescriptorOf(devCatalog.schema[table].indexRows, name, table) #
       DescriptorOf(mainCatalog.schema[table].indexRows, name, table)

\* C12: missingIndexes is the reference indexes of shared tables whose name
\* is not among the target's index names of the table; an index whose name
\* is on both sides with another column list, column order or uniqueness is
\* in no difference list
C12_MissingIndexesByName ==
  /\ result.returned =>
       /\ missingIndexes = ExpectedMissingIndexes(devCatalog.tables)
       /\ variant = "action" =>
            result.missingIndexes = ExpectedMissingIndexes(devCatalog.tables)
  /\ \A t \in Range(TableNames) : \A n \in {"ix_a", "ix_b"} :
       RedefinedIndex(t, n) =>
         /\ \A i \in DOMAIN missingIndexes :
              ~(missingIndexes[i].table = t /\ missingIndexes[i].name = n)
         /\ \A i \in DOMAIN missingColumns :
              missingColumns[i].column.name # n
         /\ \A i \in DOMAIN differentColumns :
              differentColumns[i].column.name # n
         /\ ~Includes(missingTables, t)

\* ix_a is defined differently on the two sides and only ix_b is missing
C12_Witness ==
  /\ result.returned
  /\ RedefinedIndex("users", "ix_a")
  /\ Len(missingIndexes) = 1
  /\ missingIndexes[1].name = "ix_b"
  /\ missingIndexes[1].table = "users"

(***************************************************************************)
(* C13: getTableIndexes groups the rows of SHOW INDEX by index name        *)
(***************************************************************************)
\* what the grouping of the rows by Key_name is: one descriptor per distinct
\* non-primary Key_name, in the order of the first row of that name
ExpectedTableIndexes(rows, tableName) ==
  LET names == IndexNamesOfRows(rows)
  IN [i \in DOMAIN names |-> DescriptorOf(rows, names[i], tableName)]

\* C13: for every sequence of rows SHOW INDEX answers, getTableIndexes
\* returns exactly one descriptor per distinct Key_name other than PRIMARY,
\* in the order of first occurrence, whose columns are the Column_name of the
\* rows of that key in the order encountered, whose unique is whether the
\* Non_unique of the first row of that key is 0, and whose table is the
\* queried table.
C13_IndexesGroupedByName ==
  (fnCall.fn = "getTableIndexes" /\ fnState # "called") =>
    /\ fnState = "returned"
    /\ fnResult = ExpectedTableIndexes(fnCall.rows, fnCall.tableName)

\* the same for the rows whose index names are neither integer-like nor a
\* member of Object.prototype
C13_OrdinaryNamesGrouped ==
  (/\ fnCall.fn = "getTableIndexes"
   /\ fnState # "called"
   /\ \A i \in DOMAIN fnCall.rows :
        fnCall.rows[i].Key_name \in {"PRIMARY", "ix_a", "ix_b"}) =>
    /\ fnState = "returned"
    /\ fnResult = ExpectedTableIndexes(fnCall.rows, fnCall.tableName)

\* an index name that is integer-like is returned ahead of an earlier index
C13_IntegerLikeNameFirst ==
  (/\ fnCall.fn = "getTableIndexes"
   /\ fnState = "returned"
   /\ Len(fnCall.rows) = 2
   /\ fnCall.rows[1].Key_name = "ix_a"
   /\ fnCall.rows[2].Key_name = "1") =>
    (Len(fnResult) = 2 /\ fnResult[1].name = "ix_a")

(***************************************************************************)
(* C14: the notes of compareColumns, one per differing dimension           *)
(***************************************************************************)
\* the comparison dimensions in the order of the specification
Dimensions == <<"type", "nullable", "default", "extra">>

\* the value a column descriptor has in a dimension; the value of the
\* default dimension of a column without default is the literal NULL
DimensionValue(dimension, column) ==
  CASE dimension = "type" -> column.type
    [] dimension = "nullable" -> column.nullable
    [] dimension = "default" ->
         IF column.defaultValue = << >> THEN "NULL"
         ELSE column.defaultValue[1]
    [] dimension = "extra" -> column.extra

\* the dimensions in which the two columns of the call differ, in order
DifferingDimensions ==
  SelectSeq(Dimensions,
            LAMBDA d : DimensionValue(d, fnCall.devColumn)
                         # DimensionValue(d, fnCall.mainColumn))

HasPrefix(text, prefix) ==
  Len(text) >= Len(prefix) /\ SubSeq(text, 1, Len(prefix)) = prefix

ComparedAndReturned == fnCall.fn = "compareColumns" /\ fnState = "returned"

\* C14: for every pair of column descriptors compareColumns returns at most
\* four notes, one for each dimension whose values differ and none for any
\* other, in the order type, nullable, default, extra; the result is empty
\* iff the columns are equal in all four dimensions.
C14_OneNotePerDifferingDimension ==
  ComparedAndReturned =>
    /\ Len(fnResult) <= 4
    /\ Len(fnResult) = Len(DifferingDimensions)
    /\ \A i \in DOMAIN fnResult :
         HasPrefix(fnResult[i], DifferingDimensions[i] \o ": ")
    /\ (fnResult = << >>) <=>
         \A i \in DOMAIN Dimensions :
           DimensionValue(Dimensions[i], fnCall.devColumn)
             = DimensionValue(Dimensions[i], fnCall.mainColumn)

\* the two columns differ in every dimension and four notes are returned
C14_Witness ==
  /\ ComparedAndReturned
  /\ DifferingDimensions = Dimensions
  /\ Len(fnResult) = 4

(***************************************************************************)
(* C15: the notes state the target's value, then the reference's value     *)
(***************************************************************************)
\* the note of a dimension as the specification writes it: the value of the
\* target column, the arrow, the value of the reference column
TransitionNote(dimension, target, reference) ==
  LET from == DimensionValue(dimension, target)
      to == DimensionValue(dimension, reference)
  IN IF dimension \in {"type", "extra"}
     THEN dimension \o ": '" \o from \o "' -> '" \o to \o "'"
     ELSE dimension \o ": " \o from \o " -> " \o to

ReferenceInt11 == Column("age", "int(11)", "NO", << >>, "")

TargetInt10 == Column("age", "int(10)", "NO", << >>, "")

\* C15: every note of compareColumns(referenceColumn, targetColumn) states the
\* value of the target first and the value of the reference second; for the
\* reference type int(11) and the target type int(10), all other fields
\* equal, the one note returned is type: 'int(10)' -> 'int(11)'.
C15_TargetValueFirst ==
  ComparedAndReturned =>
    /\ \A i \in DOMAIN fnResult :
         \E d \in Range(Dimensions) :
           fnResult[i] =
             TransitionNote(d, fnCall.mainColumn, fnCall.devColumn)
    /\ (fnCall.devColumn = ReferenceInt11 /\ fnCall.mainColumn = TargetInt10)
         => fnResult = <<"type: 'int(10)' -> 'int(11)'">>

\* the reference column int(11) was compared with the target column int(10)
C15_Witness ==
  /\ ComparedAndReturned
  /\ fnCall.devColumn = ReferenceInt11
  /\ fnCall.mainColumn = TargetInt10
  /\ Len(fnResult) = 1

(***************************************************************************)
(* C16: no default and the default NULL are the same default               *)
(***************************************************************************)
EqualButDefault ==
  /\ fnCall.devColumn.type = fnCall.mainColumn.type
  /\ fnCall.devColumn.nullable = fnCall.mainColumn.nullable
  /\ fnCall.devColumn.extra = fnCall.mainColumn.extra

\* the defaultValue of the two columns of the call, in either order
Defaults == {fnCall.devColumn.defaultValue, fnCall.mainColumn.defaultValue}

\* C16: for two descriptors equal in type, nullable and extra, of which one
\* has the defaultValue null and the other the string "NULL", compareColumns
\* returns no note in both argument orders; null against any other string,
\* the empty string included, gives the default note.
C16_NullDefaultIsNULL ==
  (ComparedAndReturned /\ EqualButDefault) =>
    /\ Defaults = {<< >>, <<"NULL">>} => fnResult = << >>
    /\ (/\ << >> \in Defaults
        /\ Cardinality(Defaults) = 2
        /\ <<"NULL">> \notin Defaults)
         => /\ Len(fnResult) = 1
            /\ HasPrefix(fnResult[1], "default: ")

\* no default in the reference, the default NULL in the target: no note
C16_Witness ==
  /\ ComparedAndReturned
  /\ EqualButDefault
  /\ fnCall.devColumn.defaultValue = << >>
  /\ fnCall.mainColumn.defaultValue = <<"NULL">>
  /\ fnResult = << >>

\* no default in the target, the empty default in the reference: one note
C16_WitnessEmptyString ==
  /\ ComparedAndReturned
  /\ EqualButDefault
  /\ fnCall.devColumn.defaultValue = <<"">>
  /\ fnCall.mainColumn.defaultValue = << >>
  /\ fnResult = <<"default: NULL -> ">>

(***************************************************************************)
(* C17: the ALTER TABLE statement of a missing or a different column       *)
(***************************************************************************)
\* the clauses that follow the type of the column, each only when it applies
ColumnClauses(column) ==
  (IF column.nullable = "NO" THEN " NOT NULL" ELSE "")
  \o (IF column.defaultValue = << >> THEN ""
      ELSE " DEFAULT " \o column.defaultValue[1])
  \o (IF column.extra = "" THEN "" ELSE " " \o column.extra)

ColumnStatement(verb, table, column) ==
  "ALTER TABLE ^" \o table \o "^ " \o verb \o " COLUMN ^" \o column.name
    \o "^ " \o column.type \o ColumnClauses(column) \o ";"

AgeIntNotNullDefault0 == Column("age", "int", "NO", <<"0">>, "")

\* C17: for every table name and column descriptor generateAlterColumnCommand
\* returns ALTER TABLE `<table>` ADD COLUMN `<name>` <type>, then NOT NULL
\* iff nullable is NO, then DEFAULT <defaultValue> iff defaultValue is not
\* null, then <extra> iff extra is not empty, then the semicolon;
\* generateModifyColumnCommand returns the same with MODIFY COLUMN. For the
\* table users and the column age int, not nullable, default 0, no extra,
\* the ADD statement is ALTER TABLE `users` ADD COLUMN `age` int NOT NULL
\* DEFAULT 0; (the backtick is written ^ in the model).
C17_ColumnStatementFormat ==
  /\ (fnCall.fn = "generateAlterColumnCommand" /\ fnState = "returned") =>
       /\ fnResult = ColumnStatement("ADD", fnCall.tableName, fnCall.column)
       /\ (fnCall.tableName = "users" /\ fnCall.column = AgeIntNotNullDefault0)
            => fnResult = "ALTER TABLE ^users^ ADD COLUMN ^age^ int NOT NULL DEFAULT 0;"
  /\ (fnCall.fn = "generateModifyColumnCommand" /\ fnState = "returned") =>
       fnResult = ColumnStatement("MODIFY", fnCall.tableName, fnCall.column)

\* the ADD statement of the column age of the table users was generated
C17_Witness ==
  /\ fnCall.fn = "generateAlterColumnCommand"
  /\ fnState = "returned"
  /\ fnCall.tableName = "users"
  /\ fnCall.column = AgeIntNotNullDefault0
  /\ Len(fnResult) > 0

\* a MODIFY statement with all three clauses was generated
C17_WitnessModify ==
  /\ fnCall.fn = "generateModifyColumnCommand"
  /\ fnState = "returned"
  /\ fnResult = "ALTER TABLE ^users^ MODIFY COLUMN ^age^ int(11) NOT NULL DEFAULT 0 auto_increment;"

(***************************************************************************)
(* C18: the CREATE INDEX statement of a missing index                      *)
(***************************************************************************)
RECURSIVE ColumnList(_, _)
\* the first n columns of the descriptor, backtick-quoted and comma-joined
ColumnList(columns, n) ==
  IF n = 0 THEN ""
  ELSE IF n = 1 THEN "^" \o columns[1] \o "^"
       ELSE ColumnList(columns, n - 1) \o ", ^" \o columns[n] \o "^"

\* C18: for every index descriptor generateCreateIndexCommand returns CREATE
\* INDEX (CREATE UNIQUE INDEX iff unique is true) `<name>` ON `<table>`
\* (<columns>); where the columns are the column names of the descriptor,
\* each backtick-quoted, joined by ', ' in their recorded order, none
\* dropped, duplicated or reordered.
C18_CreateIndexFormat ==
  (fnCall.fn = "generateCreateIndexCommand" /\ fnState = "returned") =>
    fnResult =
      (IF fnCall.index.unique THEN "CREATE UNIQUE INDEX ^" ELSE "CREATE INDEX ^")
        \o fnCall.index.name \o "^ ON ^" \o fnCall.index.table \o "^ ("
        \o ColumnList(fnCall.index.columns, Len(fnCall.index.columns))
        \o ");"

\* the statement of a unique index over three columns, one of them twice
C18_Witness ==
  /\ fnCall.fn = "generateCreateIndexCommand"
  /\ fnState = "returned"
  /\ fnCall.index.unique
  /\ fnCall.index.columns = <<"y", "x", "y">>
  /\ fnResult = "CREATE UNIQUE INDEX ^ix_a^ ON ^users^ (^y^, ^x^, ^y^);"

(***************************************************************************)
(* C19: SHOW CREATE TABLE is asked of the reference, for missing tables    *)
(***************************************************************************)
\* the getCreateTableStatement queries issued so far, in order
CreateTableQueries ==
  SelectSeq(queries, LAMBDA q : q.op = "getCreateTableStatement")

IsPrefix(p, list) == Len(p) <= Len(list) /\ p = SubSeq(list, 1, Len(p))

\* the statements emitted for the first n tables of missingTables, each the
\* DDL text of the reference followed by the terminator
EmittedCreateTables(n, terminator) ==
  [i \in 1..n |->
     <<[createTable |-> missingTables[i],
        columns |-> devCatalog.schema[missingTables[i]].columns],
       terminator>>]

\* C19: getCreateTableStatement is invoked on the reference connection only,
\* for the tables of missingTables only, in the order of missingTables (once
\* for the log, once more for the PR comment) and after the walk over the
\* tables has ended; never on the target connection nor for a table both
\* databases have; the statement emitted for a missing table is the DDL text
\* of the reference, unchanged, followed by its terminator.
C19_CreateTableFromReferenceOnly ==
  /\ \A i \in DOMAIN queries :
       queries[i].op = "getCreateTableStatement" =>
         /\ queries[i].conn = "dev"
         /\ Includes(missingTables, queries[i].table)
         /\ queries[i].table \notin Range(mainCatalog.tables)
         /\ ti > Len(devTables)
         /\ devTables = devCatalog.tables
         /\ \A j \in DOMAIN queries :
              j > i => queries[j].op = "getCreateTableStatement"
  /\ IsPrefix([i \in DOMAIN CreateTableQueries |-> CreateTableQueries[i].table],
              missingTables \o missingTables)
  /\ Len(CreateTableQueries) > Len(missingTables) =>
       (variant = "action" /\ result.returned)
  /\ Len(printed) <= Len(missingTables)
  /\ printed = EmittedCreateTables(Len(printed), ";\n")
  /\ Len(commentSql) <= Len(missingTables)
  /\ commentSql = EmittedCreateTables(Len(commentSql), ";")

\* two tables are missing; both statements were logged and both were put
\* into the PR comment
C19_Witness ==
  /\ Len(missingTables) = 2
  /\ Len(printed) = 2
  /\ Len(commentSql) = 2
  /\ Len(CreateTableQueries) = 4

(***************************************************************************)
(* C20: the outputs of a run under GitHub Actions                          *)
(***************************************************************************)
OutputNames ==
  {"is-in-sync", "missing-tables-count", "missing-columns-count",
   "different-columns-count", "missing-indexes-count"}

\* the value the output of that name is to have
OutputValue(name) ==
  CASE name = "is-in-sync" -> result.isInSync
    [] name = "missing-tables-count" -> Len(result.missingTables)
    [] name = "missing-columns-count" -> Len(result.missingColumns)
    [] name = "different-columns-count" -> Len(result.differentColumns)
    [] name = "missing-indexes-count" -> Len(result.missingIndexes)

\* each of the five outputs is set once, to the value of the result
OutputsSet ==
  /\ Len(outputs) = 5
  /\ {outputs[i].name : i \in DOMAIN outputs} = OutputNames
  /\ \A i \in DOMAIN outputs : outputs[i].value = OutputValue(outputs[i].name)

\* C20: under GITHUB_ACTIONS a run whose comparison completes sets the five
\* outputs before it requests any comment and before it exits: is-in-sync is
\* the isInSync of the result and the four counts are the lengths of the
\* lists of the result; a run whose comparison failed sets no output.
C20_OutputsSetAfterComparison ==
  (variant = "action" /\ githubActions) =>
    /\ ~result.returned => outputs = << >>
    /\ outputs # << >> => OutputsSet
    /\ (result.returned /\ (commentCalls # << >> \/ commentSql # << >>))
         => OutputsSet
    /\ (result.returned /\ pc = "exited") => OutputsSet
    /\ (result.returned /\ (mainDb = "ended" \/ devDb = "ended")) => OutputsSet

\* a run that found one missing table and posted the drift comment has set
\* the outputs
C20_Witness ==
  /\ variant = "action"
  /\ githubActions
  /\ pc = "exited"
  /\ comments = <<DriftComment>>
  /\ Len(result.missingTables) = 1
  /\ Len(result.missingColumns) = 0
  /\ outputs[1] = Output("is-in-sync", FALSE)
  /\ outputs[2] = Output("missing-tables-count", 1)

(***************************************************************************)
(* C21: the target is looked up by name, not by position                   *)
(***************************************************************************)
\* the orders the elements of a list may be put in
Reorderings(list) ==
  {[i \in DOMAIN list |-> list[p[i]]] :
     p \in {q \in [DOMAIN list -> DOMAIN list] :
              \A i, j \in DOMAIN list : q[i] = q[j] => i = j}}

\* the orders of the rows of SHOW INDEX that keep the rows of each index in
\* their order and move the rows of different indexes past each other
IndexRowPermutations(rows) ==
  {r \in Reorderings(rows) :
     \A k \in {rows[i].Key_name : i \in DOMAIN rows} :
       SelectSeq(r, LAMBDA x : x.Key_name = k)
         = SelectSeq(rows, LAMBDA x : x.Key_name = k)}

\* a table definition with its columns and its index rows in another order
ShapePermutations(shape) ==
  {[columns |-> cs, indexRows |-> rs] :
     cs \in Reorderings(shape.columns),
     rs \in IndexRowPermutations(shape.indexRows)}

\* the catalogs that are the given one with its table list in another
\* order, or with the columns and the index rows of one of its tables in
\* another order
CatalogPermutations(catalog) ==
  {[tables |-> tl, schema |-> catalog.schema] :
     tl \in Reorderings(catalog.tables)}
  \cup
  UNION {{[tables |-> catalog.tables,
           schema |-> [catalog.schema EXCEPT ![t] = shape]] :
            shape \in ShapePermutations(catalog.schema[t])} :
         t \in Range(catalog.tables)}

\* the four lists of the run
Lists ==
  [missingTables |-> missingTables, missingColumns |-> missingColumns,
   differentColumns |-> differentColumns, missingIndexes |-> missingIndexes]

InSync(lists) ==
  /\ lists.missingTables = << >>
  /\ lists.missingColumns = << >>
  /\ lists.differentColumns = << >>
  /\ lists.missingIndexes = << >>

\* C21: for every pair of catalogs, when checkAndReport returns, its four
\* lists and its in-sync flag are the ones the comparison of the reference
\* with the target gives, and they are the same for the target with its table
\* list, the columns of a table or the index rows of different indexes of a
\* table in any other order.
C21_TargetOrderIrrelevant ==
  pc = "returned" =>
    /\ Lists = Compared(devCatalog, mainCatalog)
    /\ \A permuted \in CatalogPermutations(mainCatalog) :
         LET lists == Compared(devCatalog, permuted)
         IN lists = Lists /\ InSync(lists) = result.isInSync

\* the comparison returned with differences for a target of two tables of
\* two columns each, one of them with rows of three different indexes
C21_Witness ==
  /\ pc = "returned"
  /\ ~result.isInSync
  /\ Len(mainCatalog.tables) = 2
  /\ \A t \in Range(mainCatalog.tables) :
       Len(mainCatalog.schema[t].columns) = 2
  /\ Cardinality(IndexRowPermutations(mainCatalog.schema["users"].indexRows)) > 1
  /\ Cardinality(CatalogPermutations(mainCatalog)) > 4
  /\ differentColumns # << >>
  /\ missingIndexes # << >>

(***************************************************************************)
(* C22: the four lists report disjoint things                              *)
(***************************************************************************)
\* the (table, column name) pairs and the (table, index name) pairs of the
\* reference
ReferenceColumns ==
  UNION {{<<t, devCatalog.schema[t].columns[i].name>> :
            i \in DOMAIN devCatalog.schema[t].columns} :
         t \in Range(devCatalog.tables)}

ReferenceIndexes ==
  UNION {{<<t, n>> : n \in Range(IndexNamesOfRows(devCatalog.schema[t].indexRows))} :
         t \in Range(devCatalog.tables)}

\* the (table, name) pair an entry of a column list reports
ColumnOf(entry) == <<entry.table, entry.column.name>>

\* no two positions of the list hold the same element
NoDuplicates(list) ==
  \A i, j \in DOMAIN list : list[i] = list[j] => i = j

\* C22: at every point of the walk no table of missingTables is the table of
\* an entry of missingColumns, differentColumns or missingIndexes; no (table,
\* column name) is in both missingColumns and differentColumns; every
\* reference table, (table, column name) and (table, index name) has at most
\* one entry in all, so that the lists are no longer than the reference has
\* tables, columns and indexes.
C22_ListsDisjoint ==
  LET reportedMissing == [i \in DOMAIN missingColumns |-> ColumnOf(missingColumns[i])]
      reportedDifferent ==
        [i \in DOMAIN differentColumns |-> ColumnOf(differentColumns[i])]
      reportedIndexes ==
        [i \in DOMAIN missingIndexes |->
           <<missingIndexes[i].table, missingIndexes[i].name>>]
  IN /\ \A t \in Range(missingTables) :
          /\ \A i \in DOMAIN missingColumns : missingColumns[i].table # t
          /\ \A i \in DOMAIN differentColumns : differentColumns[i].table # t
          /\ \A i \in DOMAIN missingIndexes : missingIndexes[i].table # t
     /\ Range(reportedMissing) \cap Range(reportedDifferent) = {}
     /\ NoDuplicates(missingTables)
     /\ NoDuplicates(reportedMissing \o reportedDifferent)
     /\ NoDuplicates(reportedIndexes)
     /\ Range(missingTables) \subseteq Range(devCatalog.tables)
     /\ Range(reportedMissing) \cup Range(reportedDifferent) \subseteq ReferenceColumns
     /\ Range(reportedIndexes) \subseteq ReferenceIndexes
     /\ Len(missingTables) <= Len(devCatalog.tables)
     /\ Len(missingColumns) + Len(differentColumns) <= Cardinality(ReferenceColumns)
     /\ Len(missingIndexes) <= Cardinality(ReferenceIndexes)

\* in the middle of the walk: a table is missing and another table has a
\* missing column, while its indexes are still to be compared
C22_Witness ==
  /\ pc = "indexesMain"
  /\ missingTables = <<"orders">>
  /\ missingColumns # << >>
  /\ ~result.returned

\* at the end of the walk a table is missing and the other table has a
\* missing column and two missing indexes
C22_WitnessAllLists ==
  /\ result.returned
  /\ missingTables = <<"orders">>
  /\ Len(missingColumns) = 1
  /\ Len(missingIndexes) = 2

====
